---- MODULE Spec2Model ----
(***************************************************************************)
(* ModSyncer.sync_mods (src/ModSyncer.py): the synchronization coordinator *)
(* fans one attempt per (mod, repository) pair out over a thread pool of   *)
(* max_workers threads, gathers the results in the calling thread with     *)
(* as_completed, then calls the conflict detector and returns the report.  *)
(*                                                                         *)
(* A future is identified by its position in submission order.  Values the *)
(* coordinator treats as opaque (version info, download path) are records  *)
(* tagged with the backend and the package they were produced for.         *)
(***************************************************************************)
EXTENDS Integers, Sequences, FiniteSets, TLC

VARIABLES
    mod_list,        \* argument of sync_mods
    repositories,    \* self.repositories
    remote,          \* what the backends' remote sources are able to answer
    pc,              \* position of the thread that called sync_mods
    work,            \* the submitted calls and their futures, in submission order
    futures,         \* the dict futures: future -> mod_id
    work_queue,      \* the executor's FIFO queue of work items not yet taken
    yielded,         \* futures as_completed has handed to the loop body
    report,          \* the report under construction
    log,             \* per attempt, the backend calls made (instrumented backend)
    detector,        \* the calls received by the conflict detector
    plan,            \* remote = "fixed": the answer of each backend for each package
    returned,        \* the reports earlier sync_mods calls on this coordinator returned
    calls,           \* attempts run against one CurseForgeRepository
    files,           \* the files of that repository's downloads directory
    wizard           \* ServerWizard.setup_server: position, answers, files, exit status

\* The state outside one sync_mods call.
aux == <<plan, returned, calls, files, wizard>>

\* The state of one sync_mods call.
coordinator == <<mod_list, repositories, remote, pc, work, futures, work_queue,
                 yielded, report, log, detector>>

vars == <<coordinator, aux>>

-----------------------------------------------------------------------------
(* Bounds of the model.                                                    *)

MaxMods == 2
MaxRepos == 2
MaxAttempts == 4
PoolAttempts == 6

Mods == {"p1", "p2"}
AllMods == <<"p1", "p2", "p3", "p4", "p5", "p6", "p7", "p8">>
AllRepos == <<"r1", "r2", "r3", "r4">>

-----------------------------------------------------------------------------
(* Values.                                                                 *)

None == [kind |-> "None"]
Raised == [kind |-> "raise"]

\* The version info backend b's remote source holds for package p.
VersionInfo(b, p) == [kind |-> "version", repo |-> b, mod |-> p]

\* The path backend b writes the artifact of version info v to.
ArtifactPath(b, v) == [kind |-> "path", dir |-> b, file |-> v]

Truthy(x) == x.kind \notin {"None", "raise"}

-----------------------------------------------------------------------------
(* The pool size.                                                          *)

max_workers == 5

-----------------------------------------------------------------------------
(* Inputs.                                                                 *)

\* Lists over S of length lo..hi.
Lists(S, lo, hi) == UNION {[1..n -> S] : n \in lo..hi}

\* Lists of distinct backend instances: the first n of AllRepos.
RepoLists(hi) == {SubSeq(AllRepos, 1, n) : n \in 0..hi}

\* The ways one attempt on a backend can go, when the backend's answers are a
\* fixed function of the package.
Behaviours == {"ok", "notfound", "resolve_raise", "fetch_none", "fetch_raise"}

\* What a backend's resolve can do for a package: return version info,
\* return None (no compatible version), or raise.
ResolveReturns(b, p) ==
    CASE remote = "any"  -> {VersionInfo(b, p), None, Raised}
      [] remote = "fixed" ->
            {CASE plan[<<b, p>>] = "notfound" -> None
               [] plan[<<b, p>>] = "resolve_raise" -> Raised
               [] OTHER -> VersionInfo(b, p)}
      [] remote = "up"   -> {VersionInfo(b, p)}
      [] remote = "flaky" -> {VersionInfo(b, p)}
      [] remote = "down" -> {Raised}

\* What a backend's fetch can do: return the path it wrote, return None, or
\* raise.
FetchReturns(b, p, v) ==
    CASE remote = "any"  -> {ArtifactPath(b, v), None, Raised}
      [] remote = "fixed" ->
            {CASE plan[<<b, p>>] = "fetch_none" -> None
               [] plan[<<b, p>>] = "fetch_raise" -> Raised
               [] OTHER -> ArtifactPath(b, v)}
      [] remote = "up"   -> {ArtifactPath(b, v)}
      [] remote = "flaky" -> {ArtifactPath(b, v), Raised}
      [] remote = "down" -> {Raised}

-----------------------------------------------------------------------------
(* sync_mods: scheduling.                                                  *)

\* Variant: only the first repository is tried for each mod.
FanoutFirstRepo(mods, repos) ==
    IF Len(repos) = 0 THEN << >>
    ELSE [k \in 1..Len(mods) |-> [mod_id |-> mods[k], repository |-> repos[1]]]

\* The nested for loops of sync_mods, flattened: the k-th executor.submit
\* call is made for mod (k-1) \div M + 1 and repository (k-1) % M + 1.
Fanout(mods, repos) ==
    [k \in 1..(Len(mods) * Len(repos)) |->
        [mod_id     |-> mods[((k - 1) \div Len(repos)) + 1],
         repository |-> repos[((k - 1) % Len(repos)) + 1]]]

\* A new future with its work item.
NewWork(call) ==
    [mod_id |-> call.mod_id, repository |-> call.repository,
     state |-> "PENDING", at |-> "resolve",
     latest_version |-> None, result |-> None, exception |-> FALSE]

Running == {a \in DOMAIN work : work[a].state = "RUNNING"}
Finished == {a \in DOMAIN work : work[a].state = "FINISHED"}

\* executor.submit(self._sync_single_mod, mod_id, repo); futures[future] = mod_id
Submit ==
    /\ pc = "submit"
    /\ Len(work) < Len(Fanout(mod_list, repositories))
    /\ LET call == Fanout(mod_list, repositories)[Len(work) + 1] IN
        /\ work' = Append(work, NewWork(call))
        /\ futures' = Append(futures, call.mod_id)
        /\ log' = Append(log, << >>)
        /\ work_queue' = Append(work_queue, Len(work) + 1)
    /\ UNCHANGED <<aux, mod_list, repositories, remote, pc, yielded, report, detector>>

\* Both for loops are exhausted: the thread enters the as_completed loop.
SubmitDone ==
    /\ pc = "submit"
    /\ Len(work) = Len(Fanout(mod_list, repositories))
    /\ pc' = "collect"
    /\ UNCHANGED <<aux, mod_list, repositories, remote, work, futures, work_queue,
                   yielded, report, log, detector>>

\* Variant: a pool without a ceiling.
CanStartUnbounded == TRUE

\* A pool thread is free to take a work item: ThreadPoolExecutor(max_workers=5).
CanStart == Cardinality(Running) < max_workers

\* A pool thread takes the oldest work item and starts _sync_single_mod.
Start ==
    /\ work_queue # << >>
    /\ CanStart
    /\ LET a == Head(work_queue) IN
        /\ work' = [work EXCEPT ![a].state = "RUNNING"]
        /\ work_queue' = Tail(work_queue)
    /\ UNCHANGED <<aux, mod_list, repositories, remote, pc, futures, yielded, report,
                   log, detector>>

-----------------------------------------------------------------------------
(* _sync_single_mod: one attempt, run by a pool thread.                    *)

\* The function returns value r: the work item sets the future's result.
Return(w, r) == [w EXCEPT !.state = "FINISHED", !.at = "end", !.result = r]

\* Variant: the handler returns what the attempt had so far.
OnExceptionPartial(w) ==
    Return(w, [kind |-> "dict", mod_id |-> w.mod_id,
               version |-> w.latest_version, download_path |-> None])

\* except Exception: log and return None.
OnException(w) == Return(w, None)

\* Variant: the not-found check is missing.
HasVersionAlways(ret) == TRUE

\* if not latest_version: return None
HasVersion(ret) == Truthy(ret)

\* Variant: the failed-download check is missing.
HasPathAlways(ret) == TRUE

\* if not download_path: return None
HasPath(ret) == Truthy(ret)

\* Variant: the resolved version is kept in an attribute the attempts share,
\* so an attempt passes on the version the latest-submitted resolver stored.
FetchArgsShared(w) ==
    LET resolved == {a \in DOMAIN work : work[a].latest_version # None} IN
        [mod_id |-> w.mod_id,
         version_info |->
            IF resolved = {} THEN w.latest_version
            ELSE work[CHOOSE a \in resolved : \A b \in resolved : b <= a].latest_version]

\* The arguments of repository.download_mod(mod_id, latest_version).
FetchArgs(w) == [mod_id |-> w.mod_id, version_info |-> w.latest_version]

\* The dict returned on success.
SyncInfo(w, download_path) ==
    [kind |-> "dict", mod_id |-> w.mod_id, version |-> w.latest_version,
     download_path |-> download_path]

\* Variant: the attempt itself appends a package it could not resolve to
\* the report, from the pool thread.
ResolveRecordsFailure(a) ==
    /\ work[a].state = "RUNNING"
    /\ work[a].at = "resolve"
    /\ \E ret \in ResolveReturns(work[a].repository, work[a].mod_id) :
        /\ log' = [log EXCEPT ![a] = Append(@,
                        [op |-> "resolve", repo |-> work[a].repository,
                         mod_id |-> work[a].mod_id, ret |-> ret])]
        /\ work' = [work EXCEPT ![a] =
                        IF ret = Raised THEN OnException(@)
                        ELSE IF ~HasVersion(ret) THEN Return(@, None)
                        ELSE [@ EXCEPT !.latest_version = ret, !.at = "fetch"]]
        /\ report' = IF ret # Raised /\ HasVersion(ret) THEN report
                     ELSE [report EXCEPT !.failed_mods = Append(@, work[a].mod_id)]
    /\ UNCHANGED <<aux, mod_list, repositories, remote, pc, futures, work_queue,
                   yielded, detector>>

\* latest_version = repository.get_latest_version(mod_id, self.minecraft_version)
Resolve(a) ==
    /\ work[a].state = "RUNNING"
    /\ work[a].at = "resolve"
    /\ \E ret \in ResolveReturns(work[a].repository, work[a].mod_id) :
        /\ log' = [log EXCEPT ![a] = Append(@,
                        [op |-> "resolve", repo |-> work[a].repository,
                         mod_id |-> work[a].mod_id, ret |-> ret])]
        /\ work' = [work EXCEPT ![a] =
                        IF ret = Raised THEN OnException(@)
                        ELSE IF ~HasVersion(ret) THEN Return(@, None)
                        ELSE [@ EXCEPT !.latest_version = ret, !.at = "fetch"]]
    /\ UNCHANGED <<aux, mod_list, repositories, remote, pc, futures, work_queue,
                   yielded, report, detector>>

\* download_path = repository.download_mod(mod_id, latest_version)
Fetch(a) ==
    /\ work[a].state = "RUNNING"
    /\ work[a].at = "fetch"
    /\ LET args == FetchArgs(work[a]) IN
       \E ret \in FetchReturns(work[a].repository, args.mod_id, args.version_info) :
        /\ log' = [log EXCEPT ![a] = Append(@,
                        [op |-> "fetch", repo |-> work[a].repository,
                         mod_id |-> args.mod_id,
                         version_info |-> args.version_info, ret |-> ret])]
        /\ work' = [work EXCEPT ![a] =
                        IF ret = Raised THEN OnException(@)
                        ELSE IF ~HasPath(ret) THEN Return(@, None)
                        ELSE Return(@, SyncInfo(@, ret))]
    /\ UNCHANGED <<aux, mod_list, repositories, remote, pc, futures, work_queue,
                   yielded, report, detector>>

-----------------------------------------------------------------------------
(* sync_mods: gathering the results.                                       *)

\* Variant: a falsy result is only skipped.
ProcessResultDropFailed(rep, mod_id, w) ==
    IF ~w.exception /\ Truthy(w.result)
    THEN [rep EXCEPT !.updated_mods = Append(@, w.result)]
    ELSE rep

\* Variant: the first successful backend wins, later successes of the same
\* mod are skipped.
ProcessResultFirstWins(rep, mod_id, w) ==
    IF ~w.exception /\ Truthy(w.result)
    THEN IF \E k \in DOMAIN rep.updated_mods : rep.updated_mods[k].mod_id = mod_id
         THEN rep
         ELSE [rep EXCEPT !.updated_mods = Append(@, w.result)]
    ELSE [rep EXCEPT !.failed_mods = Append(@, mod_id)]

\* The body of the as_completed loop for a future of mod_id whose work item
\* ended as w.
ProcessResult(rep, mod_id, w) ==
    IF w.exception
    THEN [rep EXCEPT !.failed_mods = Append(@, mod_id)]
    ELSE IF Truthy(w.result)
         THEN [rep EXCEPT !.updated_mods = Append(@, w.result)]
         ELSE [rep EXCEPT !.failed_mods = Append(@, mod_id)]

\* as_completed hands out a finished future it has not handed out yet.
Collect(a) ==
    /\ pc = "collect"
    /\ a \in Finished \ yielded
    /\ yielded' = yielded \cup {a}
    /\ report' = ProcessResult(report, futures[a], work[a])
    /\ UNCHANGED <<aux, mod_list, repositories, remote, pc, work, futures,
                   work_queue, log, detector>>

\* Variant: the loop is left after the first future.
LoopExhaustedFirst == yielded # {} \/ futures = << >>

\* as_completed has handed out every future of the dict.
LoopExhausted == yielded = DOMAIN futures

\* The for loop ends and the with block is left: executor.shutdown(wait=True).
CollectDone ==
    /\ pc = "collect"
    /\ LoopExhausted
    /\ pc' = "shutdown"
    /\ UNCHANGED <<aux, mod_list, repositories, remote, work, futures, work_queue,
                   yielded, report, log, detector>>

\* shutdown(wait=True) returns once the pool threads have run every item.
PoolIdle == work_queue = << >> /\ Running = {}

Shutdown ==
    /\ pc = "shutdown"
    /\ PoolIdle
    /\ pc' = "detect"
    /\ UNCHANGED <<aux, mod_list, repositories, remote, work, futures, work_queue,
                   yielded, report, log, detector>>

\* ModConflictDetector.detect_conflicts(self): no parameter but self, and the
\* placeholder returns an empty list.
detect_conflicts == << >>

\* The packages sync_mods hands to the detector: the call has no argument.
DetectorInput(rep) == {}

\* Variant: the detector is also called from inside the as_completed loop.
DetectInLoop ==
    /\ pc \in {"collect", "detect"}
    /\ Len(detector) <= Len(work)
    /\ report' = [report EXCEPT !.conflicts = detect_conflicts]
    /\ detector' = Append(detector, [input |-> DetectorInput(report)])
    /\ pc' = IF pc = "detect" THEN "done" ELSE pc
    /\ UNCHANGED <<aux, mod_list, repositories, remote, work, futures, work_queue,
                   yielded, log>>

\* Variant: the detector is only called when something was synced.
DetectIfSynced ==
    /\ pc = "detect"
    /\ report' = [report EXCEPT !.conflicts = << >>]
    /\ detector' = IF report.updated_mods = << >> THEN detector
                   ELSE Append(detector, [input |-> DetectorInput(report)])
    /\ pc' = "done"
    /\ UNCHANGED <<aux, mod_list, repositories, remote, work, futures, work_queue,
                   yielded, log>>

\* report['conflicts'] = self.conflict_detector.detect_conflicts(); return report
Detect ==
    /\ pc = "detect"
    /\ report' = [report EXCEPT !.conflicts = detect_conflicts]
    /\ detector' = Append(detector, [input |-> DetectorInput(report)])
    /\ pc' = "done"
    /\ UNCHANGED <<aux, mod_list, repositories, remote, work, futures, work_queue,
                   yielded, log>>

-----------------------------------------------------------------------------
(* Specifications.                                                         *)

\* No earlier call, no fixed plan, and nothing of the other programs.
AuxIdle(pl) ==
    /\ plan = pl
    /\ returned = << >>
    /\ calls = << >>
    /\ files = << >>
    /\ wizard = << >>

\* The state on entry of sync_mods.
CoordinatorInit(mods, repos, rem) ==
    /\ mod_list = mods
    /\ repositories = repos
    /\ remote = rem
    /\ pc = "submit"
    /\ work = << >>
    /\ futures = << >>
    /\ work_queue = << >>
    /\ yielded = {}
    /\ report = [updated_mods |-> << >>, failed_mods |-> << >>, conflicts |-> << >>]
    /\ log = << >>
    /\ detector = << >>

InitWith(mods, repos, rem) ==
    /\ AuxIdle(<< >>)
    /\ CoordinatorInit(mods, repos, rem)

\* Every package list and backend list of at most MaxAttempts attempts, with
\* backends that can answer anything.
Init ==
    \E mods \in Lists(Mods, 0, MaxMods), repos \in RepoLists(MaxRepos) :
        /\ Len(mods) * Len(repos) <= MaxAttempts
        /\ InitWith(mods, repos, "any")

Next ==
    \/ Submit
    \/ SubmitDone
    \/ Start
    \/ \E a \in DOMAIN work : Resolve(a)
    \/ \E a \in DOMAIN work : Fetch(a)
    \/ \E a \in DOMAIN work : Collect(a)
    \/ CollectDone
    \/ Shutdown
    \/ Detect

Spec == Init /\ [][Next]_vars

\* Lists of distinct packages that, with one or two backends, make
\* PoolAttempts attempts: more than the pool has threads.  The backends are
\* all up, all down, or resolve and then fetch or fail.
PoolInit ==
    \E n \in 1..Len(AllMods), repos \in RepoLists(MaxRepos),
       rem \in {"up", "flaky", "down"} :
        /\ n * Len(repos) = PoolAttempts
        /\ InitWith(SubSeq(AllMods, 1, n), repos, rem)

PoolSpec == PoolInit /\ [][Next]_vars

\* Backends whose answers are a fixed function of (backend, package): every
\* such function over the packages and backends of the call.
FixedInit ==
    \E mods \in Lists(Mods, 1, MaxMods), repos \in RepoLists(MaxRepos) :
        /\ Len(mods) * Len(repos) <= MaxAttempts
        /\ repos # << >>
        /\ \E pl \in [{repos[j] : j \in DOMAIN repos} \X {mods[i] : i \in DOMAIN mods}
                        -> Behaviours] :
            /\ AuxIdle(pl)
            /\ CoordinatorInit(mods, repos, "fixed")

FixedSpec == FixedInit /\ [][Next]_vars

\* The threads keep running while they can, and every backend call returns
\* or raises.
FairSpec == Spec /\ WF_vars(Next)

-----------------------------------------------------------------------------
(* Helpers of the properties.                                              *)

Range(q) == {q[k] : k \in DOMAIN q}
Occurrences(q, x) == Cardinality({k \in DOMAIN q : q[k] = x})

Returned == pc = "done"

\* What the instrumented backends saw of attempt a.
Called(a, op) == {k \in DOMAIN log[a] : log[a][k].op = op}
ResolveRet(a) == log[a][1].ret
FetchRet(a) == log[a][2].ret
Faulted(a) == \E k \in DOMAIN log[a] : log[a][k].ret = Raised
NotFound(a) == Len(log[a]) = 1 /\ ResolveRet(a) = None
FetchedNothing(a) == Len(log[a]) = 2 /\ FetchRet(a) = None
Succeeded(a) ==
    /\ Len(log[a]) = 2
    /\ ResolveRet(a).kind = "version"
    /\ FetchRet(a).kind = "path"

\* The package identifiers of the updated_mods entries.
UpdatedIds == {e.mod_id : e \in Range(report.updated_mods)}

\* a is handed out by as_completed in this step.
Gathered(a) == a \notin yielded /\ a \in yielded'

-----------------------------------------------------------------------------
(* C1: with at least one package and at least one backend, when sync_mods  *)
(* returns every input package identifier is the mod_id of an updated_mods *)
(* entry or is in failed_mods.                                             *)
C1_Coverage ==
    (Returned /\ mod_list # << >> /\ repositories # << >>) =>
        \A p \in Range(mod_list) : p \in UpdatedIds \cup Range(report.failed_mods)

\* Two packages on two backends, with a raise, a not-found and a success.
C1_Witness ==
    /\ Returned
    /\ Len(repositories) = 2
    /\ Cardinality(Range(mod_list)) = 2
    /\ \E a, b, c \in DOMAIN work : Faulted(a) /\ NotFound(b) /\ Succeeded(c)
    /\ \E p \in Range(mod_list) : p \notin UpdatedIds

(* C2: with a non-empty package list and no backend, sync_mods returns     *)
(* with updated_mods empty and every input package in failed_mods.         *)
C2_ZeroBackends ==
    (Returned /\ mod_list # << >> /\ repositories = << >>) =>
        /\ report.updated_mods = << >>
        /\ \A p \in Range(mod_list) : p \in Range(report.failed_mods)

C4_Ceiling == Cardinality(Running) <= 5

\* Five attempts are in flight while a sixth waits in the queue.
C4_Witness == Cardinality(Running) = 5 /\ work_queue # << >>

(* C5: an attempt in which resolve or fetch raised never leaves an         *)
(* exception in its future, and when its future is gathered it adds        *)
(* exactly one failed_mods entry, its package identifier, and no           *)
(* updated_mods entry.                                                     *)
C5_FaultContainment ==
    [][\A a \in DOMAIN work :
        /\ Faulted(a) => ~work[a].exception
        /\ (Gathered(a) /\ Faulted(a)) =>
            /\ report'.failed_mods = Append(report.failed_mods, work[a].mod_id)
            /\ report'.updated_mods = report.updated_mods]_vars

\* sync_mods has returned after a resolve raised and a fetch raised.
C5_Witness ==
    /\ Returned
    /\ \E a, b \in DOMAIN work :
        /\ Len(log[a]) = 1 /\ ResolveRet(a) = Raised
        /\ Len(log[b]) = 2 /\ FetchRet(b) = Raised
    /\ report.failed_mods # << >>

(* C6: detect_conflicts is invoked at most once, exactly once by the time  *)
(* sync_mods returns, and only when every scheduled attempt has finished   *)
(* and its outcome has been appended to the report.                        *)
C6_AnalyzerOrdering ==
    /\ Len(detector) <= 1
    /\ Returned => Len(detector) = 1
    /\ Len(detector) >= 1 =>
        /\ Len(work) = Len(mod_list) * Len(repositories)
        /\ Finished = DOMAIN work
        /\ yielded = DOMAIN work
        /\ Len(report.updated_mods) + Len(report.failed_mods) = Len(work)

\* The detector has been called after four attempts were gathered.
C6_Witness == Len(detector) = 1 /\ Len(work) = 4 /\ report.updated_mods # << >>

(* C7: the input handed to the conflict analyzer is exactly the set of     *)
(* distinct package identifiers that appear in updated_mods.               *)
C7_AnalyzerInput ==
    \A k \in DOMAIN detector : detector[k].input = UpdatedIds

(* C8: in every attempt fetch is called at most once, only after resolve   *)
(* returned version info in that attempt, with the attempt's package and   *)
(* exactly that version info (which the attempt's backend produced for the *)
(* attempt's package); it is not called after not-found or a raise.        *)
C8_ResolveBeforeFetch ==
    \A a \in DOMAIN work :
        /\ Cardinality(Called(a, "fetch")) <= 1
        /\ \A k \in Called(a, "fetch") :
            /\ k = 2
            /\ log[a][1].op = "resolve"
            /\ log[a][1].repo = work[a].repository
            /\ log[a][1].mod_id = work[a].mod_id
            /\ ResolveRet(a).kind = "version"
            /\ log[a][k].repo = work[a].repository
            /\ log[a][k].mod_id = work[a].mod_id
            /\ log[a][k].version_info = ResolveRet(a)
            /\ log[a][k].version_info = VersionInfo(work[a].repository, work[a].mod_id)

\* One attempt fetched, one stopped at not-found and one at a raise.
C8_Witness ==
    \E a, b, c \in DOMAIN work :
        /\ Called(a, "fetch") # {}
        /\ NotFound(b) /\ work[b].state = "FINISHED"
        /\ Len(log[c]) = 1 /\ ResolveRet(c) = Raised /\ work[c].state = "FINISHED"

\* The updated_mods entry of a successful attempt.
ExpectedEntry(a) ==
    [kind |-> "dict", mod_id |-> work[a].mod_id, version |-> ResolveRet(a),
     download_path |-> FetchRet(a)]

(* C9: the gathered attempts that resolved version info and fetched a path *)
(* account for the updated_mods entries, one each, carrying the package,   *)
(* the resolved version info and the fetched path; every other gathered    *)
(* attempt accounts for one failed_mods entry of its package.              *)
C9_OutcomeRule ==
    /\ \A e \in Range(report.updated_mods) \cup
                {ExpectedEntry(a) : a \in {b \in yielded : Succeeded(b)}} :
        Occurrences(report.updated_mods, e)
            = Cardinality({a \in yielded : Succeeded(a) /\ ExpectedEntry(a) = e})
    /\ \A p \in Range(report.failed_mods) \cup Range(mod_list) :
        Occurrences(report.failed_mods, p)
            = Cardinality({a \in yielded : ~Succeeded(a) /\ work[a].mod_id = p})

\* Scenario B and more: a not-found, a failed fetch, a fetch that raised and
\* a success have all been gathered.
C9_Witness ==
    /\ Returned
    /\ \E a, b, c, d \in yielded :
        NotFound(a) /\ FetchedNothing(b) /\ Faulted(c) /\ Succeeded(d)

(* C10: sync_mods returns only when every scheduled attempt has finished   *)
(* and been gathered, none pending or in flight; and, the backend calls    *)
(* all returning or raising, it eventually returns.                        *)
C10_Termination ==
    /\ [](Returned =>
            /\ Len(work) = Len(mod_list) * Len(repositories)
            /\ work_queue = << >>
            /\ Running = {}
            /\ Finished = DOMAIN work
            /\ yielded = DOMAIN work)
    /\ <>Returned

\* sync_mods has returned from a run of four attempts.
C10_Witness == Returned /\ Len(work) = 4 /\ Finished = DOMAIN work

-----------------------------------------------------------------------------
(* Backends with fixed answers.                                            *)

\* The calls sync_mods is to make, and what the plan says of the k-th.
Planned == Fanout(mod_list, repositories)
PlannedOk(k) == plan[<<Planned[k].repository, Planned[k].mod_id>>] = "ok"
PlannedEntry(k) ==
    LET v == VersionInfo(Planned[k].repository, Planned[k].mod_id) IN
        [kind |-> "dict", mod_id |-> Planned[k].mod_id, version |-> v,
         download_path |-> ArtifactPath(Planned[k].repository, v)]

(* C11: with backends whose answers are a fixed function of (package,      *)
(* backend), whatever the interleaving and the completion order, the       *)
(* returned updated_mods and failed_mods hold the multisets of entries     *)
(* that the inputs alone determine; only their order varies.               *)
C11_ScheduleIndependent ==
    Returned =>
        /\ \A e \in Range(report.updated_mods) \cup
                    {PlannedEntry(k) : k \in {j \in DOMAIN Planned : PlannedOk(j)}} :
            Occurrences(report.updated_mods, e)
                = Cardinality({k \in DOMAIN Planned : PlannedOk(k) /\ PlannedEntry(k) = e})
        /\ \A p \in Range(report.failed_mods) \cup Range(mod_list) :
            Occurrences(report.failed_mods, p)
                = Cardinality({k \in DOMAIN Planned :
                                ~PlannedOk(k) /\ Planned[k].mod_id = p})

\* The report lists the second backend's entry before the first backend's:
\* completion order, not submission order.
C11_Witness ==
    /\ Returned
    /\ Len(report.updated_mods) >= 2
    /\ report.updated_mods[1].version.repo = "r2"
    /\ report.updated_mods[2].version.repo = "r1"
    /\ report.updated_mods[1].mod_id = report.updated_mods[2].mod_id
    /\ report.failed_mods # << >>

\* The entry the plan gives attempt a, from a's own backend and package only.
OwnOk(a) == plan[<<work[a].repository, work[a].mod_id>>] = "ok"
OwnEntry(a) ==
    LET v == VersionInfo(work[a].repository, work[a].mod_id) IN
        [kind |-> "dict", mod_id |-> work[a].mod_id, version |-> v,
         download_path |-> ArtifactPath(work[a].repository, v)]

(* C12: the outcome recorded for an attempt is a function of what its own  *)
(* backend answers for its own package: for every assignment of answers to *)
(* the other attempts, the gathered attempt adds its own entry to          *)
(* updated_mods if its answer is a success and its package to failed_mods  *)
(* if not.                                                                 *)
C12_AttemptIsolation ==
    [][\A a \in DOMAIN work :
        Gathered(a) =>
            report' = IF OwnOk(a)
                      THEN [report EXCEPT !.updated_mods = Append(@, OwnEntry(a))]
                      ELSE [report EXCEPT !.failed_mods = Append(@, work[a].mod_id)]]_vars

\* Backend r1 raised while resolving p1; p1 on r2 and p2 on r1 were synced.
C12_Witness ==
    /\ Returned
    /\ mod_list = <<"p1", "p2">>
    /\ repositories = <<"r1", "r2">>
    /\ plan[<<"r1", "p1">>] = "resolve_raise"
    /\ plan[<<"r2", "p1">>] = "ok"
    /\ plan[<<"r1", "p2">>] = "ok"
    /\ \E i, j \in DOMAIN report.updated_mods :
        /\ report.updated_mods[i].version = VersionInfo("r2", "p1")
        /\ report.updated_mods[j].version = VersionInfo("r1", "p2")
    /\ "p1" \in Range(report.failed_mods)

-----------------------------------------------------------------------------
(* CurseForgeRepository: attempts run against one repository instance.     *)

MaxCfCalls == 2

FileNames == {"a.jar", "b.jar"}

\* What the files endpoint can answer for a mod: a failed request (transport
\* error, HTTP error status, unparsable body), no compatible file, or the
\* newest compatible file.
VersionResponses(mod_id) ==
    {[kind |-> "error"], [kind |-> "json", data |-> << >>]}
      \cup {[kind |-> "json",
             data |-> <<[kind |-> "version", fileName |-> f, downloadUrl |-> mod_id]>>]
            : f \in FileNames}

\* What the download URL can answer: a failed request, or a response whose
\* body is empty or holds the file of the mod the URL belongs to.
DownloadResponses(url) ==
    {[kind |-> "error"], [kind |-> "ok", content |-> << >>],
     [kind |-> "ok", content |-> <<url>>]}

\* CurseForgeRepository.get_latest_version, given the response of the request:
\* versions[0] if versions else None; None as well when anything raised.
get_latest_version(response) ==
    IF response.kind = "error" THEN None
    ELSE IF response.data # << >> THEN response.data[1] ELSE None

\* file_path = os.path.join(download_dir, filename)
FilePath(version_info) ==
    [kind |-> "path", dir |-> "downloads", file |-> version_info.fileName]

\* with open(file_path, 'wb') as f: f.write(response.content)
WriteFile(fs, path, content) ==
    [q \in DOMAIN fs \cup {path} |-> IF q = path THEN content ELSE fs[q]]

NewCall(mod_id) ==
    [mod_id |-> mod_id, at |-> "resolve", cause |-> "none",
     latest_version |-> None, file_path |-> None, content |-> << >>,
     download_path |-> None, result |-> None]

\* latest_version = repository.get_latest_version(mod_id, ...);
\* if not latest_version: return None
CfResolve(c) ==
    /\ calls[c].at = "resolve"
    /\ \E response \in VersionResponses(calls[c].mod_id) :
        LET v == get_latest_version(response) IN
        calls' = [calls EXCEPT ![c] =
            [@ EXCEPT !.cause = IF response.kind = "error" THEN "fault"
                                ELSE IF response.data = << >> THEN "empty"
                                ELSE "found",
                      !.latest_version = v,
                      !.at = IF HasVersion(v) THEN "fetch" ELSE "end"]]
    /\ UNCHANGED <<coordinator, plan, returned, files, wizard>>

\* download_mod up to the request: the path is computed and the file is
\* requested; a failed request makes download_mod, and so the attempt, return
\* None.
CfRequest(c) ==
    /\ calls[c].at = "fetch"
    /\ \E response \in DownloadResponses(calls[c].latest_version.downloadUrl) :
        calls' = [calls EXCEPT ![c] =
            IF response.kind = "error"
            THEN [@ EXCEPT !.file_path = FilePath(calls[c].latest_version),
                           !.at = "end"]
            ELSE [@ EXCEPT !.file_path = FilePath(calls[c].latest_version),
                           !.content = response.content, !.at = "write"]]
    /\ UNCHANGED <<coordinator, plan, returned, files, wizard>>

\* download_mod writes the body and returns file_path; _sync_single_mod
\* checks it and returns the entry.
CfWrite(c) ==
    /\ calls[c].at = "write"
    /\ files' = WriteFile(files, calls[c].file_path, calls[c].content)
    /\ calls' = [calls EXCEPT ![c] =
            [@ EXCEPT !.download_path = calls[c].file_path, !.at = "end",
                      !.result = IF HasPath(calls[c].file_path)
                                 THEN SyncInfo(calls[c], calls[c].file_path)
                                 ELSE None]]
    /\ UNCHANGED <<coordinator, plan, returned, wizard>>

\* One to MaxCfCalls attempts for different packages, started together on a
\* repository whose downloads directory is empty.
CfInit ==
    /\ CoordinatorInit(<< >>, << >>, "any")
    /\ plan = << >>
    /\ returned = << >>
    /\ wizard = << >>
    /\ files = << >>
    /\ \E n \in 1..MaxCfCalls : calls = [c \in 1..n |-> NewCall(AllMods[c])]

CfNext ==
    \/ \E c \in DOMAIN calls : CfResolve(c)
    \/ \E c \in DOMAIN calls : CfRequest(c)
    \/ \E c \in DOMAIN calls : CfWrite(c)

CfSpec == CfInit /\ [][CfNext]_vars

(* C13: the value CurseForgeRepository.get_latest_version produces when    *)
(* the request fails is never the value it produces when no compatible     *)
(* version exists.                                                         *)
C13_FaultDistinct ==
    \A c, d \in DOMAIN calls :
        (calls[c].cause = "fault" /\ calls[d].cause = "empty")
            => calls[c].latest_version # calls[d].latest_version

(* C14: whenever an attempt produces an updated_mods entry, its            *)
(* download_path names a file that exists in the downloads directory and   *)
(* is not empty at that moment.                                            *)
C14_ArtifactNonEmpty ==
    [][\A c \in DOMAIN calls :
        (calls[c].result = None /\ calls'[c].result # None) =>
            /\ calls'[c].result.download_path \in DOMAIN files'
            /\ Len(files'[calls'[c].result.download_path]) > 0]_vars

(* C18: two attempts that fetched different packages on the same           *)
(* repository were given different paths, and the file at each attempt's   *)
(* path holds that attempt's own content.                                  *)
C18_DistinctFiles ==
    \A c, d \in DOMAIN calls :
        (c # d /\ calls[c].download_path # None /\ calls[d].download_path # None) =>
            /\ calls[c].download_path # calls[d].download_path
            /\ files[calls[c].download_path] = calls[c].content
            /\ files[calls[d].download_path] = calls[d].content

-----------------------------------------------------------------------------
(* Successive sync_mods calls on one ModSyncer.                            *)

MaxSyncCalls == 2
MaxSyncAttempts == 2

\* Variant: the report is an attribute of the coordinator, carried over from
\* the call before.
ReportKept(previous) == previous

\* report = {'updated_mods': [], 'failed_mods': [], 'conflicts': []}: a new
\* dict on every call, whatever the call before left.
FreshReport(previous) ==
    [updated_mods |-> << >>, failed_mods |-> << >>, conflicts |-> << >>]

\* The caller keeps the report it was returned and calls sync_mods again, on
\* the same coordinator, with the same package list; the backends answer
\* each call afresh.
SyncAgain ==
    /\ pc = "done"
    /\ Len(returned) + 1 < MaxSyncCalls
    /\ returned' = Append(returned, report)
    /\ mod_list' = mod_list
    /\ pc' = "submit"
    /\ work' = << >>
    /\ futures' = << >>
    /\ work_queue' = << >>
    /\ yielded' = {}
    /\ log' = << >>
    /\ report' = FreshReport(report)
    /\ UNCHANGED <<repositories, remote, detector, plan, calls, files, wizard>>

\* Package lists of distinct ids; the backends may answer anything.
SyncInit ==
    \E mods \in {SubSeq(AllMods, 1, n) : n \in 0..MaxMods},
       repos \in RepoLists(MaxRepos) :
        /\ Len(mods) * Len(repos) <= MaxSyncAttempts
        /\ InitWith(mods, repos, "any")

SyncNext == Next \/ SyncAgain

SyncSpec == SyncInit /\ [][SyncNext]_vars

-----------------------------------------------------------------------------
(* C16: with an empty package list, whatever the backend list, no attempt  *)
(* is ever scheduled and no backend operation is ever called, and when     *)
(* sync_mods returns the analyzer has been invoked once and updated_mods,  *)
(* failed_mods and conflicts are empty.                                    *)
C16_EmptyPackageList ==
    mod_list = << >> =>
        /\ work = << >> /\ futures = << >> /\ work_queue = << >>
        /\ log = << >>
        /\ Returned =>
            /\ Len(detector) = 1
            /\ report.updated_mods = << >>
            /\ report.failed_mods = << >>
            /\ report.conflicts = << >>

\* sync_mods([]) has returned on a coordinator with two backends.
C16_Witness ==
    Returned /\ mod_list = << >> /\ Len(repositories) = 2 /\ Len(detector) = 1

-----------------------------------------------------------------------------
(* C17: every append to updated_mods or failed_mods is made by the thread  *)
(* that called sync_mods, in its as_completed loop, one entry for the one  *)
(* future handed out in that step; a step of an attempt in a pool thread   *)
(* never changes the report; and on return the entries are as many as the  *)
(* attempts, none lost and none recorded twice.                            *)
C17_SingleAggregation ==
    /\ [][(report'.updated_mods # report.updated_mods
            \/ report'.failed_mods # report.failed_mods) =>
                /\ pc = "collect" /\ pc' = "collect"
                /\ work' = work /\ log' = log /\ work_queue' = work_queue
                /\ \E a \in Finished :
                    /\ a \notin yielded
                    /\ yielded' = yielded \cup {a}
                    /\ \/ /\ report'.updated_mods = Append(report.updated_mods, work[a].result)
                          /\ report'.failed_mods = report.failed_mods
                       \/ /\ report'.failed_mods = Append(report.failed_mods, futures[a])
                          /\ report'.updated_mods = report.updated_mods]_vars
    /\ [](Returned =>
            Len(report.updated_mods) + Len(report.failed_mods) = Len(work))

\* An outcome is in the report while two attempts are still running in pool
\* threads.
C17_Witness ==
    /\ pc = "collect"
    /\ Len(report.updated_mods) + Len(report.failed_mods) >= 1
    /\ Cardinality(Running) >= 2

-----------------------------------------------------------------------------
(* ServerWizard.setup_server (src/ServerWizard.py).                        *)

MaxPrompts == 3

\* What the user may type at the EULA prompt, as sequences of characters.
Answers ==
    {<<"y", "e", "s">>, <<"Y", "E", "S">>, <<"Y", "e", "s">>,
     <<"n", "o">>, <<"N", "o">>,
     <<"y">>, << >>, <<"y", "e", "s", " ">>}

\* Variant: the answer is compared as typed.
LowerAsTyped(ch) == ch

\* str.lower() on one character of the alphabet of Answers.
LowerChar(ch) ==
    CASE ch = "Y" -> "y"
      [] ch = "E" -> "e"
      [] ch = "S" -> "s"
      [] ch = "N" -> "n"
      [] ch = "O" -> "o"
      [] OTHER -> ch

\* input(...).lower()
Lower(str) == [k \in DOMAIN str |-> LowerChar(str[k])]

WizardStart ==
    [pc |-> "mkdir", steps |-> << >>, written |-> << >>, answers |-> << >>,
     exit |-> "running"]

\* A step of setup_server raised: nothing catches it, the process ends.
Abort(w) == [w EXCEPT !.pc = "ended", !.exit = "exception"]

\* self._create_server_directory()
WzCreateDirectory ==
    /\ wizard.pc = "mkdir"
    /\ \/ wizard' = [wizard EXCEPT !.pc = "download",
                                   !.steps = Append(@, "directory")]
       \/ wizard' = Abort(wizard)
    /\ UNCHANGED <<coordinator, plan, returned, calls, files>>

\* jar_path = self._download_server_jar()
WzDownloadJar ==
    /\ wizard.pc = "download"
    /\ \/ wizard' = [wizard EXCEPT !.pc = "eula",
                                   !.steps = Append(@, "server.jar"),
                                   !.written = Append(@, [name |-> "server.jar",
                                                          content |-> "jar"])]
       \/ wizard' = Abort(wizard)
    /\ UNCHANGED <<coordinator, plan, returned, calls, files>>

\* One round of the while True loop of _create_eula_file.
WzEulaPrompt ==
    /\ wizard.pc = "eula"
    /\ Len(wizard.answers) < MaxPrompts
    /\ \E typed \in Answers :
        LET response == Lower(typed) IN
        wizard' =
            IF response = <<"y", "e", "s">>
            THEN [wizard EXCEPT !.answers = Append(@, typed),
                                !.steps = Append(@, "eula.txt"),
                                !.written = Append(@, [name |-> "eula.txt",
                                                       content |-> "eula=true"]),
                                !.pc = "properties"]
            ELSE IF response = <<"n", "o">>
            THEN [wizard EXCEPT !.answers = Append(@, typed),
                                !.pc = "ended", !.exit = 1]
            ELSE [wizard EXCEPT !.answers = Append(@, typed)]
    /\ UNCHANGED <<coordinator, plan, returned, calls, files>>

\* self._create_server_properties()
WzCreateProperties ==
    /\ wizard.pc = "properties"
    /\ wizard' = [wizard EXCEPT !.pc = "scripts",
                                !.steps = Append(@, "server.properties"),
                                !.written = Append(@, [name |-> "server.properties",
                                                       content |-> "defaults"])]
    /\ UNCHANGED <<coordinator, plan, returned, calls, files>>

\* self._create_start_script(); setup_server returns and the process ends.
WzCreateStartScript ==
    /\ wizard.pc = "scripts"
    /\ wizard' = [wizard EXCEPT !.pc = "ended", !.exit = 0,
                                !.steps = Append(@, "start scripts"),
                                !.written = @ \o <<[name |-> "start.bat",
                                                    content |-> "java"],
                                                   [name |-> "start.sh",
                                                    content |-> "java"]>>]
    /\ UNCHANGED <<coordinator, plan, returned, calls, files>>

WizardInit ==
    /\ CoordinatorInit(<< >>, << >>, "any")
    /\ plan = << >>
    /\ returned = << >>
    /\ calls = << >>
    /\ files = << >>
    /\ wizard = WizardStart

WizardNext ==
    \/ WzCreateDirectory
    \/ WzDownloadJar
    \/ WzEulaPrompt
    \/ WzCreateProperties
    \/ WzCreateStartScript

WizardSpec == WizardInit /\ [][WizardNext]_vars

\* The files written so far, in the order they were written.
WrittenNames == [k \in DOMAIN wizard.written |-> wizard.written[k].name]

IsPrefix(q, r) == Len(q) <= Len(r) /\ \A k \in DOMAIN q : q[k] = r[k]

\* The prompt was shown again after the k-th answer.
Reprompted(k) == k < Len(wizard.answers) \/ wizard.pc = "eula"

\* The steps run in the fixed order, eula.txt holds 'eula=true', and of each
\* step's files none is written before the step.
WizardOrder ==
    /\ IsPrefix(wizard.steps, <<"directory", "server.jar", "eula.txt",
                                "server.properties", "start scripts">>)
    /\ IsPrefix(WrittenNames, <<"server.jar", "eula.txt", "server.properties",
                                "start.bat", "start.sh">>)
    /\ wizard.answers # << >> => IsPrefix(<<"directory", "server.jar">>, wizard.steps)
    /\ \A k \in DOMAIN wizard.written :
        wizard.written[k].name = "eula.txt" => wizard.written[k].content = "eula=true"

\* The EULA rules, for the answers that count as yes and as no.
EulaRules(yes, no) ==
    /\ \A k \in DOMAIN WrittenNames :
        WrittenNames[k] = "eula.txt" =>
            /\ wizard.answers # << >>
            /\ wizard.answers[Len(wizard.answers)] \in yes
    /\ \A k \in DOMAIN wizard.answers :
        /\ wizard.answers[k] \notin (yes \cup no) => Reprompted(k)
        /\ wizard.answers[k] \in yes =>
            /\ ~Reprompted(k)
            /\ \E j \in DOMAIN WrittenNames : WrittenNames[j] = "eula.txt"
        /\ wizard.answers[k] \in no =>
            /\ ~Reprompted(k)
            /\ wizard.pc = "ended"
            /\ wizard.exit = 1
            /\ \A j \in DOMAIN WrittenNames :
                WrittenNames[j] \notin {"eula.txt", "server.properties",
                                        "start.bat", "start.sh"}

(* C19, as stated: the steps of setup_server run in the fixed order;       *)
(* eula.txt is written with 'eula=true' only after the answer 'yes'; the   *)
(* prompt repeats for every answer other than 'yes' or 'no'; on the answer *)
(* 'no' the process exits with status 1 without writing eula.txt,          *)
(* server.properties, start.bat or start.sh.                               *)
C19_AsStated ==
    WizardOrder /\ EulaRules({<<"y", "e", "s">>}, {<<"n", "o">>})

(* C19, amended: the same, with the answers compared after lowercasing:    *)
(* 'yes' and 'no' in any capitalisation count, every other answer repeats  *)
(* the prompt.                                                             *)
C19_EulaGate ==
    WizardOrder
      /\ EulaRules({<<"y", "e", "s">>, <<"Y", "E", "S">>, <<"Y", "e", "s">>},
                   {<<"n", "o">>, <<"N", "o">>})

\* The user typed 'y', was asked again, typed 'No', and the process exited
\* with status 1 having written only server.jar.
C19_Witness ==
    /\ wizard # << >>
    /\ wizard.answers = << <<"y">>, <<"N", "o">> >>
    /\ wizard.exit = 1
    /\ WrittenNames = <<"server.jar">>

====
